---- MODULE Spec2Model ----
(***************************************************************************)
(* Model of the Russian stemmer (class Stemmer) and of the vocabulary      *)
(* pipeline of src/main.py.                                                 *)
(*                                                                         *)
(* A word is a sequence of Unicode code points, one per character of the   *)
(* Python string: "дав" is <<1076, 1072, 1074>>.  The letters the rule      *)
(* tables use are named below (cA is U+0430, the Cyrillic letter a).        *)
(* Offsets are Python offsets (0-based); a sequence index is offset + 1.    *)
(***************************************************************************)
EXTENDS Integers, Sequences, FiniteSets

\* The stemmer: the argument of stem, its local word, the two region
\* offsets, the line stem has reached and the calls of _cut that the last
\* finished step made.
VARIABLES input, word, rv_pos, r2_pos, pc, calls

\* The pipeline: the block __main__ has reached, the lines of stop-words.txt
\* not read yet, the set stop_words, the dictionary voc, the words of the
\* lines seen for each category, the words of the last line and those of
\* them passed to st.stem, the dictionary scores, the tag last written to
\* output.txt and the counter count (during training, the lines read).
VARIABLES phase, stop_file, stop_words, voc, seen, line_words, stemmed,
          scores, max_tag, count

stemVars == <<input, word, rv_pos, r2_pos, pc, calls>>
mainVars == <<phase, stop_file, stop_words, voc, seen, line_words, stemmed,
              scores, max_tag, count>>
vars == <<stemVars, mainVars>>

\* ---------------------------------------------------------------- letters
cA == 1072
cB == 1073
cV == 1074
cG == 1075
cE == 1077
cI == 1080
cJ == 1081
cL == 1083
cM == 1084
cN == 1085
cO == 1086
cS == 1089
cT == 1090
cU == 1091
cKh == 1093
cSh == 1096
cShch == 1097
cY == 1099
cSoft == 1100
cEh == 1101
cYu == 1102
cYa == 1103
cLatZ == 122
cTAB == 9
cNL == 10
cSP == 32
cPlus == 43
cNBSP == 160

\* _vowel = "[аеиоуыэюя]"; _non_vowel is every other character.
vowel == {cA, cE, cI, cO, cU, cY, cEh, cYu, cYa}

\* The class of the named group (?P<ignore>[ая]).
ignore == {cA, cYa}

\* ------------------------------------------------------------ rule tables
\* One alternative of a pattern, in the order the pattern declares them.
\* Ign(s): an alternative of the group ((?P<ignore>[ая])(...)): one letter of
\* the class ignore followed by the literal s.  Lit(s): the literal s alone.
\* Behind(c, s): the literal s with the lookbehind (?<=c).
Ign(s) == [ign |-> TRUE, behind |-> {}, suf |-> s]
Lit(s) == [ign |-> FALSE, behind |-> {}, suf |-> s]
Behind(c, s) == [ign |-> FALSE, behind |-> {c}, suf |-> s]

_re_perfective_gerund ==
  [ name |-> "_re_perfective_gerund", hasIgnore |-> TRUE,
    alts |-> <<
       Ign(<<cV>>), Ign(<<cV, cSh, cI>>), Ign(<<cV, cSh, cI, cS, cSoft>>),
       Lit(<<cI, cV>>), Lit(<<cI, cV, cSh, cI>>),
       Lit(<<cI, cV, cSh, cI, cS, cSoft>>), Lit(<<cY, cV>>),
       Lit(<<cY, cV, cSh, cI>>), Lit(<<cY, cV, cSh, cI, cS, cSoft>>) >> ]

_re_adjective ==
  [ name |-> "_re_adjective", hasIgnore |-> FALSE,
    alts |-> <<
       Lit(<<cE, cE>>), Lit(<<cI, cE>>), Lit(<<cY, cE>>), Lit(<<cO, cE>>),
       Lit(<<cI, cM, cI>>), Lit(<<cY, cM, cI>>), Lit(<<cE, cJ>>),
       Lit(<<cI, cJ>>), Lit(<<cY, cJ>>), Lit(<<cO, cJ>>), Lit(<<cE, cM>>),
       Lit(<<cI, cM>>), Lit(<<cY, cM>>), Lit(<<cO, cM>>),
       Lit(<<cE, cG, cO>>), Lit(<<cO, cG, cO>>), Lit(<<cE, cM, cU>>),
       Lit(<<cO, cM, cU>>), Lit(<<cI, cKh>>), Lit(<<cY, cKh>>),
       Lit(<<cU, cYu>>), Lit(<<cYu, cYu>>), Lit(<<cA, cYa>>),
       Lit(<<cYa, cYa>>), Lit(<<cO, cYu>>), Lit(<<cE, cYu>>) >> ]

_re_participle ==
  [ name |-> "_re_participle", hasIgnore |-> TRUE,
    alts |-> <<
       Ign(<<cE, cM>>), Ign(<<cN, cN>>), Ign(<<cV, cSh>>),
       Ign(<<cYu, cShch>>), Ign(<<cShch>>), Lit(<<cI, cV, cSh>>),
       Lit(<<cY, cV, cSh>>), Lit(<<cU, cYu, cShch>>) >> ]

_re_reflexive ==
  [ name |-> "_re_reflexive", hasIgnore |-> FALSE,
    alts |-> <<
       Lit(<<cS, cYa>>), Lit(<<cS, cSoft>>) >> ]

_re_verb ==
  [ name |-> "_re_verb", hasIgnore |-> TRUE,
    alts |-> <<
       Ign(<<cL, cA>>), Ign(<<cN, cA>>), Ign(<<cE, cT, cE>>),
       Ign(<<cJ, cT, cE>>), Ign(<<cL, cI>>), Ign(<<cJ>>), Ign(<<cL>>),
       Ign(<<cE, cM>>), Ign(<<cN>>), Ign(<<cL, cO>>), Ign(<<cN, cO>>),
       Ign(<<cE, cT>>), Ign(<<cYu, cT>>), Ign(<<cN, cY>>),
       Ign(<<cT, cSoft>>), Ign(<<cE, cSh, cSoft>>), Ign(<<cN, cN, cO>>),
       Lit(<<cI, cL, cA>>), Lit(<<cY, cL, cA>>), Lit(<<cE, cN, cA>>),
       Lit(<<cE, cJ, cT, cE>>), Lit(<<cU, cJ, cT, cE>>), Lit(<<cI, cT, cE>>),
       Lit(<<cI, cL, cI>>), Lit(<<cY, cL, cI>>), Lit(<<cE, cJ>>),
       Lit(<<cU, cJ>>), Lit(<<cI, cL>>), Lit(<<cY, cL>>), Lit(<<cI, cM>>),
       Lit(<<cY, cM>>), Lit(<<cE, cN>>), Lit(<<cI, cL, cO>>),
       Lit(<<cY, cL, cO>>), Lit(<<cE, cN, cO>>), Lit(<<cYa, cT>>),
       Lit(<<cU, cE, cT>>), Lit(<<cU, cYu, cT>>), Lit(<<cI, cT>>),
       Lit(<<cY, cT>>), Lit(<<cE, cN, cY>>), Lit(<<cI, cT, cSoft>>),
       Lit(<<cY, cT, cSoft>>), Lit(<<cI, cSh, cSoft>>), Lit(<<cU, cYu>>),
       Lit(<<cYu>>) >> ]

_re_noun ==
  [ name |-> "_re_noun", hasIgnore |-> FALSE,
    alts |-> <<
       Lit(<<cA>>), Lit(<<cE, cV>>), Lit(<<cO, cV>>), Lit(<<cI, cE>>),
       Lit(<<cSoft, cE>>), Lit(<<cE>>), Lit(<<cI, cYa, cM, cI>>),
       Lit(<<cYa, cM, cI>>), Lit(<<cA, cM, cI>>), Lit(<<cE, cI>>),
       Lit(<<cI, cI>>), Lit(<<cI>>), Lit(<<cI, cE, cJ>>), Lit(<<cE, cJ>>),
       Lit(<<cO, cJ>>), Lit(<<cI, cJ>>), Lit(<<cJ>>), Lit(<<cI, cYa, cM>>),
       Lit(<<cYa, cM>>), Lit(<<cI, cE, cM>>), Lit(<<cE, cM>>),
       Lit(<<cA, cM>>), Lit(<<cO, cM>>), Lit(<<cO>>), Lit(<<cU>>),
       Lit(<<cA, cKh>>), Lit(<<cI, cYa, cKh>>), Lit(<<cYa, cKh>>),
       Lit(<<cY>>), Lit(<<cSoft>>), Lit(<<cI, cYu>>), Lit(<<cSoft, cYu>>),
       Lit(<<cYu>>), Lit(<<cI, cYa>>), Lit(<<cSoft, cYa>>), Lit(<<cYa>>) >> ]

_re_superlative ==
  [ name |-> "_re_superlative", hasIgnore |-> FALSE,
    alts |-> <<
       Lit(<<cE, cJ, cSh>>), Lit(<<cE, cJ, cSh, cE>>) >> ]

_re_derivational ==
  [ name |-> "_re_derivational", hasIgnore |-> FALSE,
    alts |-> <<
       Lit(<<cO, cS, cT>>), Lit(<<cO, cS, cT, cSoft>>) >> ]

_re_i ==
  [ name |-> "_re_i", hasIgnore |-> FALSE,
    alts |-> <<
       Lit(<<cI>>) >> ]

\* _re_nn without its lookbehind.
_re_nn_plain ==
  [ name |-> "_re_nn", hasIgnore |-> FALSE,
    alts |-> << Lit(<<cN>>) >> ]

_re_nn ==
  [ name |-> "_re_nn", hasIgnore |-> FALSE,
    alts |-> << Behind(cN, <<cN>>) >> ]

_re_ ==
  [ name |-> "_re_", hasIgnore |-> FALSE,
    alts |-> <<
       Lit(<<cSoft>>) >> ]

\* ------------------------------------------------------------- matching
\* Whether alternative a matches the text of w that starts at offset s and
\* ends at the end of w (every pattern ends in $).
AltMatches(w, a, s) ==
  LET n == Len(w) - s
  IN  /\ n = Len(a.suf) + (IF a.ign THEN 1 ELSE 0)
      /\ a.behind # {} => (s >= 1 /\ w[s] \in a.behind)
      /\ a.ign => w[s + 1] \in ignore
      /\ SubSeq(w, Len(w) - Len(a.suf) + 1, Len(w)) = a.suf

\* The first alternative of the pattern, in declared order, that matches at
\* offset s; 0 when none does.
FirstAlt(w, rule, s) ==
  LET M == {i \in 1..Len(rule.alts) : AltMatches(w, rule.alts[i], s)}
  IN  IF M = {} THEN 0 ELSE CHOOSE i \in M : \A j \in M : i <= j

\* search as a scan from the end of the word would make it: the match with
\* the greatest start offset >= pos.
RECURSIVE search_from_end(_, _, _, _)
search_from_end(w, rule, pos, s) ==
  IF s < pos THEN [found |-> FALSE, start |-> 0, alt |-> 0]
  ELSE LET i == FirstAlt(w, rule, s)
       IN  IF i # 0 THEN [found |-> TRUE, start |-> s, alt |-> i]
           ELSE search_from_end(w, rule, pos, s - 1)

search_rightmost(w, rule, pos) == search_from_end(w, rule, pos, Len(w))

\* pattern.search(word, pos): the match with the least start offset >= pos.
\* A lookbehind may read the character before pos.
RECURSIVE search(_, _, _)
search(w, rule, pos) ==
  IF pos > Len(w) THEN [found |-> FALSE, start |-> 0, alt |-> 0]
  ELSE LET i == FirstAlt(w, rule, pos)
       IN  IF i # 0 THEN [found |-> TRUE, start |-> pos, alt |-> i]
           ELSE search(w, rule, pos + 1)

Range(f) == {f[i] : i \in DOMAIN f}

\* word[:n]
Prefix(w, n) == SubSeq(w, 1, n)

\* _cut returning word[match.start():] for word[:match.start()].
_cut_keeps_tail(w, ending, pos) ==
  LET match == search(w, ending, pos)
  IN  IF match.found
      THEN [match |-> TRUE, word |-> SubSeq(w, match.start + 1, Len(w))]
      ELSE [match |-> FALSE, word |-> w]

\* _cut searching the whole word: ending.search(word).
_cut_anywhere(w, ending, pos) ==
  LET match == search(w, ending, 0)
  IN  IF match.found
      THEN IF ~ending.hasIgnore
           THEN [match |-> TRUE, word |-> Prefix(w, match.start)]
           ELSE LET ign == IF ending.alts[match.alt].ign THEN 1 ELSE 0
                IN  [match |-> TRUE, word |-> Prefix(w, match.start + ign)]
      ELSE [match |-> FALSE, word |-> w]

\* _cut without the ignored part: always word[:match.start()].
_cut_drops_ignored(w, ending, pos) ==
  LET match == search(w, ending, pos)
  IN  IF match.found
      THEN [match |-> TRUE, word |-> Prefix(w, match.start)]
      ELSE [match |-> FALSE, word |-> w]

\* Stemmer._cut
_cut(w, ending, pos) ==
  LET match == search(w, ending, pos)
  IN  IF match.found
      THEN IF ~ending.hasIgnore
           THEN [match |-> TRUE, word |-> Prefix(w, match.start)]
           ELSE LET ign == IF ending.alts[match.alt].ign THEN 1 ELSE 0
                IN  [match |-> TRUE, word |-> Prefix(w, match.start + ign)]
      ELSE [match |-> FALSE, word |-> w]

\* ------------------------------------------------------------- regions
\* Offset of the first vowel of w at or after offset s; Len(w) when there is
\* none.
RECURSIVE FirstVowel(_, _)
FirstVowel(w, s) ==
  IF s >= Len(w) THEN Len(w)
  ELSE IF w[s + 1] \in vowel THEN s ELSE FirstVowel(w, s + 1)

\* Start offset of the first match of _re_r1 (vowel then non-vowel) at or
\* after offset s; Len(w) when there is none.
RECURSIVE FirstVowelNonVowel(_, _)
FirstVowelNonVowel(w, s) ==
  IF s + 1 >= Len(w) THEN Len(w)
  ELSE IF w[s + 1] \in vowel /\ w[s + 2] \notin vowel THEN s
       ELSE FirstVowelNonVowel(w, s + 1)

\* _find_rv returning 0 for a word without a vowel.
_find_rv_zero(w) ==
  LET s == FirstVowel(w, 0)
  IN  IF s = Len(w) THEN 0 ELSE s + 1

\* Stemmer._find_rv
_find_rv(w) ==
  LET s == FirstVowel(w, 0)
  IN  IF s = Len(w) THEN Len(w) ELSE s + 1

\* Stemmer._find_r2
_find_r2(w) ==
  LET s1 == FirstVowelNonVowel(w, 0)
  IN  IF s1 = Len(w) THEN Len(w)
      ELSE LET s2 == FirstVowelNonVowel(w, s1 + 2)
           IN  IF s2 = Len(w) THEN Len(w) ELSE s2 + 2

\* --------------------------------------------------------------- steps
\* One call of _cut as the steps make it: the record of the call (for the
\* properties) and its result.
Call(w, ending, pos) ==
  LET r == _cut(w, ending, pos)
  IN  [rule |-> ending.name, pos |-> pos, before |-> w,
       match |-> r.match, after |-> r.word]

\* _step_1 without the return after the gerund cut.
_step_1_no_return(w, rv) ==
  LET g == Call(w, _re_perfective_gerund, rv)
      r == Call(g.after, _re_reflexive, rv)
      a == Call(r.after, _re_adjective, rv)
  IN  IF a.match
      THEN LET p == Call(a.after, _re_participle, rv)
           IN  [word |-> p.after, calls |-> <<g, r, a, p>>]
      ELSE
        LET v == Call(a.after, _re_verb, rv)
        IN  IF v.match THEN [word |-> v.after, calls |-> <<g, r, a, v>>]
            ELSE LET n == Call(v.after, _re_noun, rv)
                 IN  [word |-> n.after, calls |-> <<g, r, a, v, n>>]

\* _step_1 without the reflexive cut.
_step_1_no_reflexive(w, rv) ==
  LET g == Call(w, _re_perfective_gerund, rv)
  IN  IF g.match THEN [word |-> g.after, calls |-> <<g>>]
      ELSE
        LET a == Call(g.after, _re_adjective, rv)
        IN  IF a.match
            THEN LET p == Call(a.after, _re_participle, rv)
                 IN  [word |-> p.after, calls |-> <<g, a, p>>]
            ELSE
              LET v == Call(a.after, _re_verb, rv)
              IN  IF v.match THEN [word |-> v.after, calls |-> <<g, a, v>>]
                  ELSE LET n == Call(v.after, _re_noun, rv)
                       IN  [word |-> n.after, calls |-> <<g, a, v, n>>]

\* Each step returns the word and the calls of _cut it made, in order.
_step_1(w, rv) ==
  LET g == Call(w, _re_perfective_gerund, rv)
  IN  IF g.match THEN [word |-> g.after, calls |-> <<g>>]
      ELSE
        LET r == Call(g.after, _re_reflexive, rv)
            a == Call(r.after, _re_adjective, rv)
        IN  IF a.match
            THEN LET p == Call(a.after, _re_participle, rv)
                 IN  [word |-> p.after, calls |-> <<g, r, a, p>>]
            ELSE
              LET v == Call(a.after, _re_verb, rv)
              IN  IF v.match THEN [word |-> v.after, calls |-> <<g, r, a, v>>]
                  ELSE LET n == Call(v.after, _re_noun, rv)
                       IN  [word |-> n.after, calls |-> <<g, r, a, v, n>>]

_step_2(w, rv) ==
  LET i == Call(w, _re_i, rv)
  IN  [word |-> i.after, calls |-> <<i>>]

_step_3(w, r2) ==
  LET d == Call(w, _re_derivational, r2)
  IN  [word |-> d.after, calls |-> <<d>>]

\* _step_4 without `if not match`.
_step_4_both(w, rv) ==
  LET s == Call(w, _re_superlative, rv)
      n == Call(s.after, _re_nn, rv)
      b == Call(n.after, _re_, rv)
  IN  [word |-> b.after, calls |-> <<s, n, b>>]

_step_4(w, rv) ==
  LET s == Call(w, _re_superlative, rv)
      n == Call(s.after, _re_nn, rv)
  IN  IF ~n.match
      THEN LET b == Call(n.after, _re_, rv)
           IN  [word |-> b.after, calls |-> <<s, n, b>>]
      ELSE [word |-> n.after, calls |-> <<s, n>>]

\* The element of a one-element set.
Only(S) == CHOOSE x \in S : TRUE

\* Stemmer.stem: the regions of the argument, then the four steps, each on
\* the word the step before returned.
stem(w) ==
  Only({Only({_step_4(w3, rv).word :
               w3 \in {_step_3(w2, r2).word :
                 w2 \in {_step_2(w1, rv).word :
                   w1 \in {_step_1(w, rv).word}}}})
          : rv \in {_find_rv(w)}, r2 \in {_find_r2(w)}})

\* ---------------------------------------------------------------- inputs
MaxLen == 2
MaxRoot == 2

\* Every letter the patterns name, a consonant no pattern names (cB) and a
\* Latin letter.
Alphabet ==
  vowel \cup {cB, cV, cG, cJ, cL, cM, cN, cS, cT, cKh, cSh, cShch, cSoft, cLatZ}

SeqsUpTo(S, n) == UNION {[1..k -> S] : k \in 0..n}

\* The texts a pattern matches.
Texts(rule) ==
  UNION {IF rule.alts[i].ign
           THEN {<<c>> \o rule.alts[i].suf : c \in ignore}
           ELSE IF rule.alts[i].behind # {}
                  THEN {<<c>> \o rule.alts[i].suf : c \in rule.alts[i].behind}
                  ELSE {rule.alts[i].suf}
         : i \in 1..Len(rule.alts)}

\* s[1] \o s[2] \o ... \o s[Len(s)]
RECURSIVE Concat(_)
Concat(s) == IF s = <<>> THEN <<>> ELSE Head(s) \o Concat(Tail(s))

\* Input words: every word of at most MaxLen letters, and every word made of
\* a root of at most MaxRoot parts (a consonant, a vowel, or a vowel and a
\* consonant), an optional derivational, superlative, participle or double-n
\* suffix, an optional ending and an optional reflexive suffix.
RootParts == {<<cB>>, <<cA>>, <<cA, cB>>}
Roots == {Concat(s) : s \in SeqsUpTo(RootParts, MaxRoot)}
Middles ==
  {<<>>} \cup Texts(_re_derivational) \cup Texts(_re_superlative)
         \cup Texts(_re_participle) \cup Texts(_re_nn)
Endings ==
  {<<>>} \cup Texts(_re_perfective_gerund) \cup Texts(_re_adjective)
         \cup Texts(_re_verb) \cup Texts(_re_noun)
Reflexives == {<<>>} \cup Texts(_re_reflexive)

Words ==
  SeqsUpTo(Alphabet, MaxLen)
    \cup {r \o m \o e \o x : r \in Roots, m \in Middles, e \in Endings,
                             x \in Reflexives}

\* ------------------------------------------------- the vocabulary pipeline
\* Each category is the sequence of the code points of its name.
science == <<115, 99, 105, 101, 110, 99, 101>>
style == <<115, 116, 121, 108, 101>>
culture == <<99, 117, 108, 116, 117, 114, 101>>
life == <<108, 105, 102, 101>>
economics == <<101, 99, 111, 110, 111, 109, 105, 99, 115>>
business == <<98, 117, 115, 105, 110, 101, 115, 115>>
travel == <<116, 114, 97, 118, 101, 108>>
forces == <<102, 111, 114, 99, 101, 115>>
media == <<109, 101, 100, 105, 97>>
sport == <<115, 112, 111, 114, 116>>
categories ==
  <<science, style, culture, life, economics, business, travel, forces, media,
    sport>>

MaxStopLines == 2
MaxLines == 2
MaxText == 1

\* The characters the class \s of a str pattern matches: the Unicode
\* whitespace characters.
Whitespace ==
  (cTAB..13) \cup (28..31) \cup {cSP, 133, cNBSP, 5760} \cup (8192..8202)
    \cup {8232, 8233, 8239, 8287, 12288}

\* Characters of the text files.
TextChars == {cI, cSP, cNBSP}

\* The lines of ./stop-words.txt as the file iterator yields them: every line
\* keeps its line terminator, and the last line of a file has one or not.
StopLineWords == {<<cI>>}
StopFiles ==
  {<<>>} \cup
  {[i \in 1..Len(ws) |-> IF i < Len(ws) \/ nl THEN ws[i] \o <<cNL>> ELSE ws[i]]
     : ws \in (SeqsUpTo(StopLineWords, MaxStopLines) \ {<<>>}), nl \in BOOLEAN}

\* The texts of the lines: the short ones, and two words with a no-break
\* space between them.
LineTexts == SeqsUpTo(TextChars, MaxText) \cup {<<cI, cNBSP, cI>>}

\* The lines of ./news_test.txt as the file iterator yields them: a line is
\* not empty, and only the last line of a file can lack its terminator.
TextLines == {t \o e : t \in LineTexts, e \in {<<cNL>>, <<>>}} \ {<<>>}

\* What the lines of ./news_train.txt start with: two of the categories and
\* a name that is not one ("politics").
politics == <<112, 111, 108, 105, 116, 105, 99, 115>>
TrainCategories == {science, sport, politics}

\* The lines of ./news_train.txt: a category, a tab and a text; a category
\* alone; or a text without a tab.
TrainLines ==
  {c \o <<cTAB>> \o t : c \in TrainCategories,
                         t \in TextLines \cup {<<>>}}
    \cup {c \o <<cNL>> : c \in TrainCategories}
    \cup TextLines

\* line.find(c): the offset of the first c of the line, -1 without one.
find(line, c) ==
  IF \A i \in 1..Len(line) : line[i] # c THEN -1
  ELSE (CHOOSE i \in 1..Len(line) :
          line[i] = c /\ \A j \in 1..(i - 1) : line[j] # c) - 1

\* line[:k] and line[k:], k >= -1, of a line that is not empty.
slice_to(line, k) == SubSeq(line, 1, IF k < 0 THEN Len(line) + k ELSE k)
slice_from(line, k) == SubSeq(line, k + 1, Len(line))

\* A line the file iterator yields ends its file unless it ends in "\n".
Terminated(line) == line # <<>> /\ line[Len(line)] = cNL

\* re.sub('[^a-zа-яА-ЯA-Z\\s]', '', line)
Kept(c) ==
  \/ c \in 97..122
  \/ c \in 1072..1103
  \/ c \in 1040..1071
  \/ c \in 65..90
  \/ c \in Whitespace
sub_letters(line) == SelectSeq(line, Kept)

\* re.sub('[\\s+]', ' ', line)
sub_spaces(line) ==
  [i \in 1..Len(line) |->
     IF line[i] \in Whitespace \cup {cPlus} THEN cSP ELSE line[i]]

\* line.split(' ')
RECURSIVE split(_)
split(line) ==
  IF \A i \in 1..Len(line) : line[i] # cSP THEN <<line>>
  ELSE LET k == CHOOSE i \in 1..Len(line) :
                  line[i] = cSP /\ \A j \in 1..(i - 1) : line[j] # cSP
       IN  <<SubSeq(line, 1, k - 1)>> \o split(SubSeq(line, k + 1, Len(line)))

\* words = line.split(' ') after the two substitutions
words_of(line) == split(sub_spaces(sub_letters(line)))

\* The loop without `if word in stop_words: continue`.
passed_all(ws, stops) == ws

\* The words of ws that the loop passes to st.stem: `if word in stop_words:
\* continue`.
passed(ws, stops) == SelectSeq(ws, LAMBDA w : w \notin stops)

\* word = st.stem(word), for the words the loop does not skip.
stems_of(ws, stops) ==
  Only({[i \in 1..Len(p) |-> stem(p[i])] : p \in {passed(ws, stops)}})

\* scores[category] after the loop over the words of a test line whose
\* stems are st.
score(st, v, c) == Cardinality({i \in 1..Len(st) : st[i] \in v[c]})

\* The loop over scores.items(): the first category, in the order of
\* categories, with the greatest score.
max_tag_of(sc) ==
  LET k == CHOOSE i \in 1..Len(categories) :
             /\ \A j \in 1..Len(categories) : sc[categories[j]] <= sc[categories[i]]
             /\ \A j \in 1..(i - 1) : sc[categories[j]] < sc[categories[i]]
  IN  categories[k]

\* ----------------------------------------------------------- stem, by line
\* The pipeline's variables while only the stemmer runs, and the stemmer's
\* while only the pipeline runs.
MainIdle ==
  /\ phase = "idle"
  /\ stop_file = <<>>
  /\ stop_words = {}
  /\ voc = <<>>
  /\ seen = <<>>
  /\ line_words = <<>>
  /\ stemmed = <<>>
  /\ scores = <<>>
  /\ max_tag = <<>>
  /\ count = 0

StemIdle ==
  /\ input = <<>>
  /\ word = <<>>
  /\ rv_pos = 0
  /\ r2_pos = 0
  /\ pc = "idle"
  /\ calls = <<>>

\* st.stem(word) is entered with one of the input words.
Init ==
  /\ input \in Words
  /\ word = input
  /\ rv_pos = 0
  /\ r2_pos = 0
  /\ pc = "find"
  /\ calls = <<>>
  /\ MainIdle

\* rv_pos, r2_pos = self._find_rv(word), self._find_r2(word)
FindRegions ==
  /\ pc = "find"
  /\ rv_pos' = _find_rv(word)
  /\ r2_pos' = _find_r2(word)
  /\ pc' = "step_1"
  /\ UNCHANGED <<input, word, calls, mainVars>>

\* word = self._step_1(word, rv_pos)
Step1 ==
  /\ pc = "step_1"
  /\ \E r \in {_step_1(word, rv_pos)} : word' = r.word /\ calls' = r.calls
  /\ pc' = "step_2"
  /\ UNCHANGED <<input, rv_pos, r2_pos, mainVars>>

\* word = self._step_2(word, rv_pos)
Step2 ==
  /\ pc = "step_2"
  /\ \E r \in {_step_2(word, rv_pos)} : word' = r.word /\ calls' = r.calls
  /\ pc' = "step_3"
  /\ UNCHANGED <<input, rv_pos, r2_pos, mainVars>>

\* word = self._step_3(word, r2_pos)
Step3 ==
  /\ pc = "step_3"
  /\ \E r \in {_step_3(word, r2_pos)} : word' = r.word /\ calls' = r.calls
  /\ pc' = "step_4"
  /\ UNCHANGED <<input, rv_pos, r2_pos, mainVars>>

\* word = self._step_4(word, rv_pos); return word
Step4 ==
  /\ pc = "step_4"
  /\ \E r \in {_step_4(word, rv_pos)} : word' = r.word /\ calls' = r.calls
  /\ pc' = "done"
  /\ UNCHANGED <<input, rv_pos, r2_pos, mainVars>>

Next == FindRegions \/ Step1 \/ Step2 \/ Step3 \/ Step4

Spec == Init /\ [][Next]_vars

\* ------------------------------------------------------ __main__, by block
\* Before stop-words.txt is read: stop_words = set().
InitMain ==
  /\ StemIdle
  /\ phase = "stop"
  /\ stop_file \in StopFiles
  /\ stop_words = {}
  /\ voc = <<>>
  /\ seen = <<>>
  /\ line_words = <<>>
  /\ stemmed = <<>>
  /\ scores = <<>>
  /\ max_tag = <<>>
  /\ count = 0

\* for line in stop_words_file: stop_words.add(line)
ReadStopLine ==
  /\ phase = "stop"
  /\ stop_file # <<>>
  /\ stop_words' = stop_words \cup {Head(stop_file)}
  /\ stop_file' = Tail(stop_file)
  /\ UNCHANGED <<phase, voc, seen, line_words, stemmed, scores, max_tag, count,
                 stemVars>>

\* voc = dict(); for category in categories: voc[category] = set()
MakeVoc ==
  /\ phase = "stop"
  /\ stop_file = <<>>
  /\ voc' = [c \in Range(categories) |-> {}]
  /\ seen' = [c \in Range(categories) |-> {}]
  /\ phase' = "train"
  /\ UNCHANGED <<stop_file, stop_words, line_words, stemmed, scores, max_tag,
                 count, stemVars>>

\* One line of news_train.txt: the body of the loop. voc.get(category) is
\* None for a category that is not a key of voc, and .add on it raises
\* AttributeError at the first word the loop does not skip, after st.stem.
TrainLine(line) ==
  /\ phase = "train"
  /\ count < MaxLines
  /\ \E k \in {find(line, cTAB)} :
       \E category \in {slice_to(line, k)} :
         \E ws \in {words_of(slice_from(line, k + 1))} :
           \E p \in {passed(ws, stop_words)} :
             /\ line_words' = ws
             /\ IF category \in Range(categories)
                THEN /\ stemmed' = p
                     /\ voc' = [voc EXCEPT ![category] =
                                  @ \cup Range(stems_of(ws, stop_words))]
                     /\ seen' = [seen EXCEPT ![category] = @ \cup Range(ws)]
                     /\ phase' = IF Terminated(line) THEN "train"
                                 ELSE "train_end"
                ELSE IF p = <<>>
                THEN /\ stemmed' = p
                     /\ phase' = IF Terminated(line) THEN "train"
                                 ELSE "train_end"
                     /\ UNCHANGED <<voc, seen>>
                ELSE /\ stemmed' = <<Head(p)>>
                     /\ phase' = "error"
                     /\ UNCHANGED <<voc, seen>>
  /\ count' = count + 1
  /\ UNCHANGED <<stop_file, stop_words, scores, max_tag, stemVars>>

\* news_train.txt is exhausted; news_test.txt and output.txt are opened and
\* count = 1.
OpenTest ==
  /\ phase \in {"train", "train_end"}
  /\ phase' = "test"
  /\ count' = 1
  /\ line_words' = <<>>
  /\ stemmed' = <<>>
  /\ UNCHANGED <<stop_file, stop_words, voc, seen, scores, max_tag, stemVars>>

\* One line of news_test.txt: the body of the loop.
TestLine(line) ==
  /\ phase = "test"
  /\ count <= MaxLines
  /\ \E ws \in {words_of(line)} :
       /\ line_words' = ws
       /\ stemmed' = passed(ws, stop_words)
       /\ \E st \in {stems_of(ws, stop_words)} :
            \E sc \in {[c \in Range(categories) |-> score(st, voc, c)]} :
              /\ scores' = sc
              /\ max_tag' = max_tag_of(sc)
  /\ phase' = IF Terminated(line) THEN "test" ELSE "test_end"
  /\ count' = count + 1
  /\ UNCHANGED <<stop_file, stop_words, voc, seen, stemVars>>

NextMain ==
  \/ ReadStopLine
  \/ MakeVoc
  \/ \E line \in TrainLines : TrainLine(line)
  \/ OpenTest
  \/ \E line \in TextLines : TestLine(line)

SpecMain == InitMain /\ [][NextMain]_vars

\* ----------------------------------------------------------- _cut, alone
\* The patterns of the class.
Rules ==
  {_re_perfective_gerund, _re_adjective, _re_participle, _re_reflexive,
   _re_verb, _re_noun, _re_superlative, _re_derivational, _re_i, _re_nn, _re_}

RuleNamed(n) == CHOOSE r \in Rules : r.name = n

\* Words for _cut alone: every word of at most MaxLen letters, and a root
\* followed by a text that one of the patterns matches.
CutWords ==
  SeqsUpTo(Alphabet, MaxLen)
    \cup {r \o t : r \in Roots, t \in UNION {Texts(rule) : rule \in Rules}}

InitCut ==
  /\ input \in CutWords
  /\ word = input
  /\ rv_pos = 0
  /\ r2_pos = 0
  /\ pc = "cut"
  /\ calls = <<>>
  /\ MainIdle

\* self._cut(word, ending, pos), for any pattern of the class and any pos.
CutCall(ending, pos) ==
  /\ pc = "cut"
  /\ \E c \in {Call(word, ending, pos)} : word' = c.after /\ calls' = <<c>>
  /\ pc' = "cut_done"
  /\ UNCHANGED <<input, rv_pos, r2_pos, mainVars>>

NextCut == \E ending \in Rules, pos \in 0..(Len(word) + 1) : CutCall(ending, pos)

SpecCut == InitCut /\ [][NextCut]_vars

\* ------------------------------------------------------------ properties
IsPrefix(p, w) == Len(p) <= Len(w) /\ p = Prefix(w, Len(p))

EndsWith(w, t) ==
  Len(t) <= Len(w) /\ SubSeq(w, Len(w) - Len(t) + 1, Len(w)) = t

\* Whether the last finished step called _cut with the pattern named n, and
\* whether that call cut.
Attempted(n) == \E i \in 1..Len(calls) : calls[i].rule = n
Fired(n) == \E i \in 1..Len(calls) : calls[i].rule = n /\ calls[i].match

\* C1: in every state of a call of stem, the word is a prefix of the
\* argument, and every call of _cut returns a prefix of the word it was
\* given: nothing is added, substituted or reordered.
PrefixInvariant ==
  /\ IsPrefix(word, input)
  /\ \A i \in 1..Len(calls) :
       IsPrefix(calls[i].after, calls[i].before)
         /\ IsPrefix(calls[i].before, input)

\* stem has returned a word at least two letters shorter than its argument.
PrefixWitness == pc = "done" /\ Len(word) + 2 <= Len(input)

\* C2: the offsets are those of the argument of stem from the first step to
\* the last; every call of _cut is made with rv_pos (r2_pos for the
\* derivational pattern); a call that cuts returns a word at least that long,
\* with the letters below the offset untouched.
BoundaryRespect ==
  /\ pc # "find" =>
       /\ rv_pos = _find_rv(input)
       /\ r2_pos = _find_r2(input)
       /\ Len(word) >= rv_pos
       /\ Prefix(word, rv_pos) = Prefix(input, rv_pos)
  /\ \A i \in 1..Len(calls) :
       \E bound \in {IF calls[i].rule = "_re_derivational" THEN r2_pos
                     ELSE rv_pos} :
         /\ calls[i].pos = bound
         /\ calls[i].match =>
              /\ Len(calls[i].after) >= bound
              /\ Prefix(calls[i].after, bound) = Prefix(calls[i].before, bound)

\* Step 3 has cut a word that step 1 or 2 had shortened, down to R2 of the
\* argument exactly.
BoundaryWitness ==
  /\ pc = "step_4"
  /\ calls[1].match
  /\ Len(calls[1].before) < Len(input)
  /\ Len(word) = r2_pos
  /\ r2_pos > rv_pos

\* The suffixes of the first group of _re_perfective_gerund.
GerundSuffixes ==
  {_re_perfective_gerund.alts[i].suf :
     i \in {j \in 1..Len(_re_perfective_gerund.alts) :
              _re_perfective_gerund.alts[j].ign}}

\* w ends in the suffix s with a letter of the ignore class right before it.
IgnoredBefore(w, s) ==
  Len(w) > Len(s) /\ EndsWith(w, s) /\ w[Len(w) - Len(s)] \in ignore

\* C3 as stated: a word that ends in a perfective-gerund suffix of the first
\* group, with a or ya right before it, is stemmed to the word without the
\* suffix, the a or ya kept.
GerundKeepsIgnored ==
  pc = "done" =>
    \A s \in GerundSuffixes :
      IgnoredBefore(input, s) => word = Prefix(input, Len(input) - Len(s))

\* C3 amended: the same, for the words whose a or ya before the suffix lies
\* at or after RV.
GerundKeepsIgnoredInRV ==
  pc = "done" =>
    \A s \in GerundSuffixes :
      (IgnoredBefore(input, s) /\ Len(input) - Len(s) - 1 >= rv_pos) =>
        /\ word = Prefix(input, Len(input) - Len(s))
        /\ word[Len(word)] \in ignore

\* stem has returned for a word in a or ya and the longest gerund suffix,
\* the a or ya in RV.
GerundWitness ==
  /\ pc = "done"
  /\ IgnoredBefore(input, <<cV, cSh, cI, cS, cSoft>>)
  /\ Len(input) - 6 >= rv_pos
  /\ word = Prefix(input, Len(input) - 5)

\* A match of the pattern that ends the word w, wherever it starts.
EndsIn(rule, w) == search(w, rule, 0).found

\* A match of the pattern that ends the word w and starts at or after pos.
EndsInFrom(rule, w, pos) == search(w, rule, pos).found

\* w ends in the reflexive suffix s', and without it ends in no gerund,
\* adjective, verb or noun suffix.
ReflexiveOnly(w) ==
  /\ EndsWith(w, <<cS, cSoft>>)
  /\ \A st \in {Prefix(w, Len(w) - 2)} :
       \A rule \in {_re_perfective_gerund, _re_adjective, _re_verb, _re_noun} :
         ~EndsIn(rule, st)

\* C4 as stated: such a word is stemmed to the word without its s'.
ReflexiveStripped ==
  (pc = "done" /\ ReflexiveOnly(input)) =>
    word = Prefix(input, Len(input) - 2)

\* The s' starts at or after RV, and the word without it ends in no
\* derivational suffix from R2 on and in no superlative suffix or double n
\* from RV on.
ReflexiveInRV(w) ==
  /\ Len(w) - 2 >= _find_rv(w)
  /\ \A st \in {Prefix(w, Len(w) - 2)} :
       /\ ~EndsInFrom(_re_derivational, st, _find_r2(w))
       /\ ~EndsInFrom(_re_superlative, st, _find_rv(w))
       /\ ~EndsInFrom(_re_nn, st, _find_rv(w))

\* C4 amended: a word that ends in s' starting at or after RV and that,
\* without it, ends in no gerund, adjective, verb or noun suffix, in no
\* derivational suffix from R2 on and in no superlative suffix or double n
\* from RV on, is stemmed to the word without its s'.
ReflexiveStrippedInRV ==
  (pc = "done" /\ ReflexiveOnly(input) /\ ReflexiveInRV(input)) =>
    word = Prefix(input, Len(input) - 2)

\* stem has returned for such a word of four letters or more.
ReflexiveWitness ==
  /\ pc = "done"
  /\ Len(input) >= 4
  /\ ReflexiveOnly(input)
  /\ ReflexiveInRV(input)
  /\ word = Prefix(input, Len(input) - 2)

NoVowel(w) == \A i \in 1..Len(w) : w[i] \notin vowel

\* C5: for a word without a vowel both offsets are the length of the word,
\* no call of _cut cuts and stem returns the word as it was.
NoVowelUnchanged ==
  NoVowel(input) =>
    /\ pc # "find" => (rv_pos = Len(input) /\ r2_pos = Len(input))
    /\ word = input
    /\ \A i \in 1..Len(calls) : ~calls[i].match

\* stem has returned for a Latin letter followed by a soft sign.
NoVowelWitness ==
  pc = "done" /\ input = <<cLatZ, cSoft>> /\ word = input /\ Len(calls) = 3

EndsInSingleN(w) ==
  /\ Len(w) >= 1
  /\ w[Len(w)] = cN
  /\ Len(w) >= 2 => w[Len(w) - 1] # cN

\* The nn call of step 4 did not cut, the soft-sign call was made on the same
\* word and did not cut either, and that word is the result.
SoftSignInstead ==
  /\ ~calls[2].match
  /\ Len(calls) = 3
  /\ calls[3].rule = "_re_"
  /\ calls[3].before = calls[2].before
  /\ ~calls[3].match
  /\ word = calls[2].before

\* C6 as stated, both halves on the word given to stem: a word that ends in
\* a double n lying at or after RV is stemmed to the word without its last
\* n; on a word that ends in a single n the n-n call of step 4 does not cut,
\* the soft-sign call is made and cuts nothing.
DoubleNCollapse ==
  pc = "done" =>
    /\ (EndsWith(input, <<cN, cN>>) /\ Len(input) - 2 >= rv_pos) =>
         (word = Prefix(input, Len(input) - 1) /\ calls[2].match)
    /\ EndsInSingleN(input) => (~calls[2].match /\ Len(calls) = 3
                                  /\ calls[3].rule = "_re_" /\ ~calls[3].match)

\* C6: a word that ends in a double n lying at or after RV is stemmed to the
\* word without its last n, by the n-n call of step 4, and so is the word
\* that the superlative call of step 4 returns when it ends in such a double
\* n.  When the word that call returns ends in a single n, the n-n call does
\* not cut, the soft-sign call is made and does not cut either.  The
\* soft-sign call cuts only a word that ends in a soft sign, and then that
\* one letter.
DoubleNCollapseAtStep4 ==
  pc = "done" =>
    /\ calls[2].rule = "_re_nn"
    /\ (EndsWith(input, <<cN, cN>>) /\ Len(input) - 2 >= rv_pos) =>
         (word = Prefix(input, Len(input) - 1) /\ calls[2].match)
    /\ (EndsWith(calls[2].before, <<cN, cN>>)
          /\ Len(calls[2].before) - 2 >= rv_pos) =>
         /\ calls[2].match
         /\ Len(calls) = 2
         /\ word = Prefix(calls[2].before, Len(calls[2].before) - 1)
    /\ EndsInSingleN(calls[2].before) => SoftSignInstead
    /\ (Len(calls) = 3 /\ calls[3].match) =>
         /\ EndsWith(calls[3].before, <<cSoft>>)
         /\ calls[3].after = Prefix(calls[3].before, Len(calls[3].before) - 1)

\* stem has returned for a word that ends in a single n lying in RV and
\* preceded by another letter: the n-n call did not cut, the soft-sign call
\* was made and the word is returned whole.
DoubleNWitness ==
  /\ pc = "done"
  /\ Len(input) >= 2
  /\ EndsInSingleN(input)
  /\ Len(input) - 1 >= rv_pos
  /\ calls[2].before = input
  /\ SoftSignInstead

\* C7: in step 1 at most one of the gerund, verb and noun calls cuts; the
\* participle call is made only after an adjective call that cut; and when
\* the gerund call cuts it is the only call of the step.
Step1Exclusive ==
  pc = "step_2" =>
    /\ Cardinality({n \in {"_re_perfective_gerund", "_re_verb", "_re_noun"} :
                      Fired(n)}) <= 1
    /\ \A j \in 1..Len(calls) :
         calls[j].rule = "_re_participle" =>
           \E i \in 1..(j - 1) :
             calls[i].rule = "_re_adjective" /\ calls[i].match
    /\ Fired("_re_perfective_gerund") =>
         (Len(calls) = 1 /\ word = calls[1].after)

\* Step 1 has cut a reflexive suffix, an adjective ending and a participle
\* suffix.
Step1Witness ==
  /\ pc = "step_2"
  /\ Fired("_re_reflexive")
  /\ Fired("_re_adjective")
  /\ Fired("_re_participle")

\* C8: in step 4 the soft-sign call is made only when the n-n call did not
\* cut, the two never both cut, and after the superlative call at most one
\* letter is removed.
Step4Exclusive ==
  pc = "done" =>
    /\ calls[1].rule = "_re_superlative" /\ calls[2].rule = "_re_nn"
    /\ calls[2].match => Len(calls) = 2
    /\ Len(calls) = 3 => (calls[3].rule = "_re_" /\ ~calls[2].match)
    /\ ~(Fired("_re_nn") /\ Fired("_re_"))
    /\ Len(calls[1].after) - Len(word) <= 1

\* Step 4 has collapsed a double n, and so made no soft-sign call.
Step4Witness ==
  pc = "done" /\ calls[2].match /\ Len(calls) = 2 /\ ~Attempted("_re_")

\* The first-match scan: whether alternative a ends the word w with its
\* whole text (the letter of the ignore class included) starting at an
\* offset >= minPos.
EndMatch(w, a, minPos) ==
  \E start \in {Len(w) - Len(a.suf) - (IF a.ign THEN 1 ELSE 0)} :
    /\ start >= minPos
    /\ start >= 0
    /\ EndsWith(w, a.suf)
    /\ a.ign => w[start + 1] \in ignore
    /\ a.behind # {} => (start >= 1 /\ w[start] \in a.behind)

EndMatches(w, rule, minPos) ==
  {i \in 1..Len(rule.alts) : EndMatch(w, rule.alts[i], minPos)}

\* The result of the first-match scan: the first alternative in declared
\* order that matches is removed, its letter of the ignore class kept.
FirstMatchCut(w, rule, minPos) ==
  \* the least index of the matching alternatives
  IF EndMatches(w, rule, minPos) = {} THEN [match |-> FALSE, word |-> w]
  ELSE LET k == CHOOSE i \in EndMatches(w, rule, minPos) :
                  \A j \in EndMatches(w, rule, minPos) : i <= j
       IN  [match |-> TRUE,
            word |-> Prefix(w, Len(w) - Len(rule.alts[k].suf))]

TextLen(a) == Len(a.suf) + (IF a.ign THEN 1 ELSE 0)

\* C10: for every pattern, word and pos, _cut returns what the first-match
\* scan of the alternatives in declared order returns, and the alternative
\* removed is no shorter than any other alternative that matches.
CutIsFirstMatch ==
  pc = "cut_done" =>
    \A c \in {calls[1]} : \A rule \in {RuleNamed(c.rule)} :
      /\ [match |-> c.match, word |-> c.after]
           = FirstMatchCut(c.before, rule, c.pos)
      /\ \A M \in {EndMatches(c.before, rule, c.pos)} :
           /\ c.match <=> M # {}
           /\ \A i \in M : \A j \in M :
                (\A k \in M : i <= k) =>
                  TextLen(rule.alts[j]) <= TextLen(rule.alts[i])

\* _cut has cut a word that two alternatives of the pattern match.
CutWitness ==
  /\ pc = "cut_done"
  /\ calls[1].match
  /\ Cardinality(EndMatches(calls[1].before, RuleNamed(calls[1].rule),
                            calls[1].pos)) >= 2

\* C9: in both passes no word of stop_words is passed to st.stem: the words
\* passed are the words of the line that are not in stop_words (the first of
\* them only, when the training line raised); voc[c] holds the stems of the
\* words of the lines of category c that are not in stop_words, and no
\* others; and scores[c] counts the words of the test line that are not in
\* stop_words and whose stem is in voc[c].
StopWordsFiltered ==
  /\ \A i \in 1..Len(stemmed) : stemmed[i] \notin stop_words
  /\ Range(stemmed) \subseteq Range(line_words) \ stop_words
  /\ phase # "error" =>
       /\ Range(stemmed) = Range(line_words) \ stop_words
       /\ Len(stemmed) =
            Cardinality({i \in 1..Len(line_words) :
                           line_words[i] \notin stop_words})
  /\ phase # "stop" =>
       \A c \in Range(categories) :
         voc[c] = {stem(w) : w \in seen[c] \ stop_words}
  /\ (phase \in {"test", "test_end"} /\ scores # <<>>) =>
       \A st \in {[i \in 1..Len(line_words) |-> stem(line_words[i])]} :
         \A c \in Range(categories) :
           scores[c] =
             Cardinality({i \in 1..Len(line_words) :
                            /\ line_words[i] \notin stop_words
                            /\ st[i] \in voc[c]})

\* A test line with a stop word and a counted word has been scored, after a
\* training line with a stop word.
StopWordsWitness ==
  /\ phase \in {"test", "test_end"}
  /\ scores # <<>>
  /\ Range(line_words) \cap stop_words # {}
  /\ \E c \in Range(categories) : seen[c] \cap stop_words # {}
  /\ \E c \in Range(categories) : scores[c] >= 1

====
